---- MODULE Spec2Model ----
(***************************************************************************)
(* Model of dragon_wizard_knight.py: the console game "Dragon, Wizard,     *)
(* Knight" (class DragonWizardKnightGame with HumanPlayer / RobotPlayer).  *)
(*                                                                         *)
(* Python strings that the code inspects character by character (the move  *)
(* codes and the round-count text) are sequences of one-character strings: *)
(* "dk" is <<"d", "k">>, the empty string is <<>>.  Names and messages,    *)
(* which the code only compares or prints, are TLA+ strings.               *)
(***************************************************************************)
EXTENDS Integers, Sequences, FiniteSets, TLC

VARIABLES
    pc,             \* position of run() / run_bonus_game() between console events
    player,         \* self.player  (None or [name, points])
    sally,          \* self.sally
    bob,            \* self.bob
    tie_points,     \* self.tie_points
    winner_final,   \* self.winner_final
    current_round,  \* self.current_round
    rounds_total,   \* self.rounds_total
    p_move,         \* value last returned by HumanPlayer.choose_move
    r_move,         \* value last returned by RobotPlayer.choose_move
    winner,         \* value last returned by get_round_winner / get_bonus_winner
    announce,       \* value last returned by get_final_winner
    console         \* last validation line printed

vars == <<pc, player, sally, bob, tie_points, winner_final, current_round,
          rounds_total, p_move, r_move, winner, announce, console>>

(***************************************************************************)
(* Bounds of the model.                                                    *)
(***************************************************************************)
\* longest console line typed at a move or round-count prompt
MaxInputLen == 2
\* largest round count typed at the standard prompt
MaxRounds == 2
\* largest round count typed at the bonus prompt
MaxBonusRounds == 1

\* names typed at the name prompt (any text is accepted, line 369)
Names == {"Zoe", "Sally", "no one"}

\* characters typed at a move prompt
MoveChars == {"d", "k", "w", "r", "D", "K", "x"}
\* characters typed at a round-count prompt
NumChars == {"0", "1", "2", "3", "-", "a", " "}

\* all console lines of length <= n over an alphabet
RECURSIVE Lines(_, _)
Lines(chars, n) ==
    IF n = 0 THEN {<<>>}
    ELSE LET shorter == Lines(chars, n - 1)
         IN  shorter \cup {Append(s, c) : s \in {t \in shorter : Len(t) = n - 1}, c \in chars}

MoveInputs == Lines(MoveChars, MaxInputLen)
NumInputs == Lines(NumChars, MaxInputLen)

(***************************************************************************)
(* Python string primitives used by the code.                              *)
(***************************************************************************)
\* None, the value of self.player / self.sally / self.bob before creation
None == <<>>
\* a local variable of a round that no round has assigned yet (not a string)
Unassigned == <<"<unassigned>">>

\* str.upper() on one character
UpperChar(c) ==
    CASE c = "d" -> "D" [] c = "k" -> "K" [] c = "w" -> "W" [] c = "r" -> "R"
      [] OTHER -> c

\* str.lower() on one character
LowerChar(c) ==
    CASE c = "D" -> "d" [] c = "K" -> "k" [] c = "W" -> "w" [] c = "R" -> "r"
      [] OTHER -> c

RECURSIVE upper(_)
upper(s) == IF s = <<>> THEN <<>> ELSE <<UpperChar(Head(s))>> \o upper(Tail(s))
RECURSIVE lower(_)
lower(s) == IF s = <<>> THEN <<>> ELSE <<LowerChar(Head(s))>> \o lower(Tail(s))

\* "".join(list of strings)
RECURSIVE join(_)
join(list) == IF list = <<>> THEN <<>> ELSE Head(list) \o join(Tail(list))

\* Python's  a in b  for two strings: a occurs in b as a contiguous substring
StrIn(a, b) ==
    \E i \in 0..(Len(b) - Len(a)) : \A j \in 1..Len(a) : b[i + j] = a[j]

\* str.strip() of blanks
RECURSIVE lstrip(_)
lstrip(s) == IF s # <<>> /\ Head(s) = " " THEN lstrip(Tail(s)) ELSE s
RECURSIVE rstrip(_)
rstrip(s) ==
    IF s # <<>> /\ s[Len(s)] = " " THEN rstrip(SubSeq(s, 1, Len(s) - 1)) ELSE s
strip(s) == rstrip(lstrip(s))

\* value of a decimal digit, -1 for any other character (of the digits only
\* those of NumChars are typed)
DigitValue(c) ==
    CASE c = "0" -> 0 [] c = "1" -> 1 [] c = "2" -> 2 [] c = "3" -> 3 [] OTHER -> -1

RECURSIVE DigitsValue(_)
DigitsValue(s) ==
    IF s = <<>> THEN 0
    ELSE 10 * DigitsValue(SubSeq(s, 1, Len(s) - 1)) + DigitValue(s[Len(s)])

IsDigits(s) == s # <<>> /\ \A i \in 1..Len(s) : DigitValue(s[i]) >= 0

\* int(text): [ok |-> TRUE, val |-> n], or ok = FALSE where Python raises ValueError
int(text) ==
    LET t == strip(text)
        signed == t # <<>> /\ t[1] = "-"
        digits == IF signed THEN Tail(t) ELSE t
    IN  IF IsDigits(digits)
        THEN [ok |-> TRUE,
              val |-> IF signed THEN 0 - DigitsValue(digits) ELSE DigitsValue(digits)]
        ELSE [ok |-> FALSE, val |-> 0]

(***************************************************************************)
(* Players.                                                                *)
(***************************************************************************)
Player(name) == [name |-> name, points |-> 0]

\* add_points with = in place of += (line 27)
add_points_assign(p, points_to_add) == [p EXCEPT !.points = points_to_add]

add_points(p, points_to_add) == [p EXCEPT !.points = @ + points_to_add]

\* reset_points that forgets the assignment
reset_points_kept(p) == p

reset_points(p) == [p EXCEPT !.points = 0]

(***************************************************************************)
(* Game rules.                                                             *)
(***************************************************************************)
Dragon == <<"d">>
Knight == <<"k">>
Wizard == <<"w">>
Druid == <<"r">>

\* key = winner, value = loser
normal_rules == (Dragon :> Knight) @@ (Knight :> Wizard) @@ (Wizard :> Dragon)

normal_moves == <<Dragon, Knight, Wizard>>
bonus_moves == <<Dragon, Knight, Wizard, Druid>>

Elems(list) == {list[i] : i \in 1..Len(list)}

\* HumanPlayer.choose_move: the string of inputs the loop accepts
valid_inputs(allowed_moves) == join(allowed_moves) \o upper(join(allowed_moves))

\* HumanPlayer.choose_move: does the loop leave on this input?
move_accepted(move, allowed_moves) == StrIn(move, valid_inputs(allowed_moves))

StdAccepted == {m \in MoveInputs : move_accepted(m, normal_moves)}
StdRejected == MoveInputs \ StdAccepted
BonusAccepted == {m \in MoveInputs : move_accepted(m, bonus_moves)}
BonusRejected == MoveInputs \ BonusAccepted

\* RobotPlayer.choose_move: random.choice(allowed_moves), any element
RobotChoices(allowed_moves) == Elems(allowed_moves)

\* get_num_rounds with >= in place of > (line 166): 0 is accepted
get_num_rounds_nonneg(rounds_str) ==
    LET rounds_int == int(rounds_str)
    IN  IF ~rounds_int.ok
        THEN [returned |-> FALSE, value |-> 0,
              printed |-> "--> please enter a valid integer number"]
        ELSE IF rounds_int.val >= 0
        THEN [returned |-> TRUE, value |-> rounds_int.val, printed |-> ""]
        ELSE [returned |-> FALSE, value |-> 0,
              printed |-> "--> please enter a number that is GREATER than zero"]

\* get_num_rounds, one pass of its loop on one console line
get_num_rounds(rounds_str) ==
    LET rounds_int == int(rounds_str)
    IN  IF ~rounds_int.ok
        THEN [returned |-> FALSE, value |-> 0,
              printed |-> "--> please enter a valid integer number"]
        ELSE IF rounds_int.val > 0
        THEN [returned |-> TRUE, value |-> rounds_int.val, printed |-> ""]
        ELSE [returned |-> FALSE, value |-> 0,
              printed |-> "--> please enter a number that is GREATER than zero"]

\* get_round_winner with the rule table read the wrong way round (key = loser)
get_round_winner_reversed(pm, rm, human, robot, ties) ==
    IF pm = rm
    THEN [raised |-> FALSE, winner_name |-> "it's a tie :( no one",
          player |-> human, robot |-> robot, tie_points |-> ties + 1]
    ELSE IF pm \notin DOMAIN normal_rules
    THEN [raised |-> TRUE, winner_name |-> "",
          player |-> human, robot |-> robot, tie_points |-> ties]
    ELSE IF normal_rules[rm] = pm
    THEN [raised |-> FALSE, winner_name |-> human.name,
          player |-> add_points(human, 1), robot |-> robot, tie_points |-> ties]
    ELSE [raised |-> FALSE, winner_name |-> robot.name,
          player |-> human, robot |-> add_points(robot, 1), tie_points |-> ties]

\* get_round_winner: the resolver of a standard round.  raised = TRUE is the
\* KeyError of the lookup normal_rules[p_move] on a key the table lacks.
get_round_winner(pm, rm, human, robot, ties) ==
    IF pm = rm
    THEN [raised |-> FALSE, winner_name |-> "it's a tie :( no one",
          player |-> human, robot |-> robot, tie_points |-> ties + 1]
    ELSE IF pm \notin DOMAIN normal_rules
    THEN [raised |-> TRUE, winner_name |-> "",
          player |-> human, robot |-> robot, tie_points |-> ties]
    ELSE IF normal_rules[pm] = rm
    THEN [raised |-> FALSE, winner_name |-> human.name,
          player |-> add_points(human, 1), robot |-> robot, tie_points |-> ties]
    ELSE [raised |-> FALSE, winner_name |-> robot.name,
          player |-> human, robot |-> add_points(robot, 1), tie_points |-> ties]

\* get_bonus_winner: the tests of its if / elif chain, in the order written
\* (lines 234, 238, 244, 250, 255); the final else (line 258) has no test
bonus_case_tests(pm, rm) ==
    << pm = Druid /\ rm # Druid,
       pm # Druid /\ rm = Druid,
       pm = Druid /\ rm = Druid,
       pm = rm,
       pm \in DOMAIN normal_rules /\ normal_rules[pm] = rm >>

\* get_bonus_winner with the equal-moves test placed before the druid tests,
\* so that druid against druid counts as a tie
get_bonus_winner_tie_first(pm, rm, human, robot, ties) ==
    IF pm = rm
    THEN [winner_name |-> "tie! no one",
          player |-> human, robot |-> robot, tie_points |-> ties + 1]
    ELSE IF pm = Druid
    THEN [winner_name |-> "someone played druid... " \o human.name,
          player |-> add_points(human, 2), robot |-> add_points(robot, -2),
          tie_points |-> ties]
    ELSE IF rm = Druid
    THEN [winner_name |-> "someone played druid... " \o robot.name,
          player |-> add_points(human, -2), robot |-> add_points(robot, 2),
          tie_points |-> ties]
    ELSE IF pm \in DOMAIN normal_rules /\ normal_rules[pm] = rm
    THEN [winner_name |-> human.name,
          player |-> add_points(human, 1), robot |-> robot, tie_points |-> ties]
    ELSE [winner_name |-> robot.name,
          player |-> human, robot |-> add_points(robot, 1), tie_points |-> ties]

\* get_bonus_winner: the resolver of one bonus battle
get_bonus_winner(pm, rm, human, robot, ties) ==
    IF pm = Druid /\ rm # Druid
    THEN [winner_name |-> "someone played druid... " \o human.name,
          player |-> add_points(human, 2), robot |-> add_points(robot, -2),
          tie_points |-> ties]
    ELSE IF pm # Druid /\ rm = Druid
    THEN [winner_name |-> "someone played druid... " \o robot.name,
          player |-> add_points(human, -2), robot |-> add_points(robot, 2),
          tie_points |-> ties]
    ELSE IF pm = Druid /\ rm = Druid
    THEN [winner_name |-> "you both played druid! no one",
          player |-> add_points(human, -2), robot |-> add_points(robot, -2),
          tie_points |-> ties]
    ELSE IF pm = rm
    THEN [winner_name |-> "tie! no one",
          player |-> human, robot |-> robot, tie_points |-> ties + 1]
    ELSE IF pm \in DOMAIN normal_rules /\ normal_rules[pm] = rm
    THEN [winner_name |-> human.name,
          player |-> add_points(human, 1), robot |-> robot, tie_points |-> ties]
    ELSE [winner_name |-> robot.name,
          player |-> human, robot |-> add_points(robot, 1), tie_points |-> ties]

\* get_final_winner(is_bonus_round=False) with the two names exchanged
get_final_winner_standard_swapped(human, s) ==
    LET p_pts == human.points
        s_pts == s.points
        winner_name == IF s_pts > p_pts THEN human.name
                       ELSE IF p_pts > s_pts THEN s.name
                       ELSE "no one"
        tie_msg == IF s_pts > p_pts \/ p_pts > s_pts THEN "" ELSE "it's a tie :( "
    IN  [winner_final |-> winner_name,
         returned |-> tie_msg \o winner_name \o " is the ULTIMATE winner!"]

\* get_final_winner(is_bonus_round=False): the name stored and the line returned
get_final_winner_standard(human, s) ==
    LET p_pts == human.points
        s_pts == s.points
        winner_name == IF s_pts > p_pts THEN s.name
                       ELSE IF p_pts > s_pts THEN human.name
                       ELSE "no one"
        tie_msg == IF s_pts > p_pts \/ p_pts > s_pts THEN "" ELSE "it's a tie :( "
    IN  [winner_final |-> winner_name,
         returned |-> tie_msg \o winner_name \o " is the ULTIMATE winner!"]

\* get_final_winner(is_bonus_round=True) with >= in Sally's test, so that
\* Sally takes a shared maximum alone
get_final_winner_bonus_nonstrict(human, s, b) ==
    LET p_pts == human.points
        s_pts == s.points
        b_pts == b.points
    IN  IF s_pts > p_pts /\ s_pts >= b_pts
        THEN s.name \o " is the MOST ULTIMATE winner!"
        ELSE IF b_pts > s_pts /\ b_pts > p_pts
        THEN b.name \o " is the MOST ULTIMATE winner!"
        ELSE IF p_pts > s_pts /\ p_pts > b_pts
        THEN human.name \o " is the MOST ULTIMATE winner!"
        ELSE IF s_pts > p_pts /\ b_pts > p_pts
        THEN "Bob and Sally are the MOST ULTIMATE winners!"
        ELSE "it's a tie :( no one is the MOST ULTIMATE winner!"

\* get_final_winner(is_bonus_round=True): the line returned
get_final_winner_bonus(human, s, b) ==
    LET p_pts == human.points
        s_pts == s.points
        b_pts == b.points
    IN  IF s_pts > p_pts /\ s_pts > b_pts
        THEN s.name \o " is the MOST ULTIMATE winner!"
        ELSE IF b_pts > s_pts /\ b_pts > p_pts
        THEN b.name \o " is the MOST ULTIMATE winner!"
        ELSE IF p_pts > s_pts /\ p_pts > b_pts
        THEN human.name \o " is the MOST ULTIMATE winner!"
        ELSE IF s_pts > p_pts /\ b_pts > p_pts
        THEN "Bob and Sally are the MOST ULTIMATE winners!"
        ELSE "it's a tie :( no one is the MOST ULTIMATE winner!"

(***************************************************************************)
(* The program: run() and run_bonus_game(), cut at the console reads.      *)
(***************************************************************************)
Init ==
    /\ pc = "name_prompt"
    /\ player = None
    /\ sally = None
    /\ bob = None
    /\ tie_points = 0
    /\ winner_final = ""
    /\ current_round = 0
    /\ rounds_total = 0
    /\ p_move = Unassigned
    /\ r_move = Unassigned
    /\ winner = ""
    /\ announce = ""
    /\ console = "please read the rules below"

\* run(), lines 367-372: the name prompt takes any line
EnterName(name) ==
    /\ pc = "name_prompt"
    /\ player' = Player(name)
    /\ sally' = Player("Sally")
    /\ console' = "right, apologies"
    /\ pc' = "std_rounds_prompt"
    /\ UNCHANGED <<bob, tie_points, winner_final, current_round, rounds_total,
                   p_move, r_move, winner, announce>>

\* get_num_rounds: a line that is not a positive integer is answered and asked again
RoundsRejected(rounds_str) ==
    /\ pc \in {"std_rounds_prompt", "bonus_rounds_prompt"}
    /\ ~get_num_rounds(rounds_str).returned
    /\ console' = get_num_rounds(rounds_str).printed
    /\ UNCHANGED <<pc, player, sally, bob, tie_points, winner_final, current_round,
                   rounds_total, p_move, r_move, winner, announce>>

\* run(), lines 375-376
StandardRoundsAccepted(rounds_str) ==
    /\ pc = "std_rounds_prompt"
    /\ get_num_rounds(rounds_str).returned
    /\ get_num_rounds(rounds_str).value <= MaxRounds
    /\ rounds_total' = get_num_rounds(rounds_str).value
    /\ current_round' = 0
    /\ console' = "enter a number"
    /\ pc' = "std_loop"
    /\ UNCHANGED <<player, sally, bob, tie_points, winner_final,
                   p_move, r_move, winner, announce>>

\* play_standard_round, lines 213-214, up to the move prompt
BeginStandardRound ==
    /\ pc = "std_loop"
    /\ current_round < rounds_total
    /\ current_round' = current_round + 1
    /\ console' = "--- round"
    /\ pc' = "std_move"
    /\ UNCHANGED <<player, sally, bob, tie_points, winner_final, rounds_total,
                   p_move, r_move, winner, announce>>

\* HumanPlayer.choose_move, line 70: a refused line is answered and asked
\* again; every refused line has the same effect
MoveRejected ==
    /\ \/ pc = "std_move" /\ StdRejected # {}
       \/ pc \in {"sally_move", "bob_move"} /\ BonusRejected # {}
    /\ console' = "--> please enter one of"
    /\ UNCHANGED <<pc, player, sally, bob, tie_points, winner_final, current_round,
                   rounds_total, p_move, r_move, winner, announce>>

\* play_standard_round, lines 217-223, then print_scores (line 380); the
\* KeyError of get_round_winner is caught nowhere and ends the process
StandardBattle(move, robot_move) ==
    /\ pc = "std_move"
    /\ move_accepted(move, normal_moves)
    /\ robot_move \in RobotChoices(normal_moves)
    /\ p_move' = lower(move)
    /\ r_move' = robot_move
    /\ LET res == get_round_winner(lower(move), robot_move, player, sally, tie_points)
       IN  IF res.raised
           THEN /\ pc' = "crashed"
                /\ console' = "KeyError"
                /\ UNCHANGED <<player, sally, tie_points, winner>>
           ELSE /\ pc' = "std_loop"
                /\ console' = "--- scores"
                /\ player' = res.player
                /\ sally' = res.robot
                /\ tie_points' = res.tie_points
                /\ winner' = res.winner_name
    /\ UNCHANGED <<bob, winner_final, current_round, rounds_total, announce>>

\* run(), line 382: get_final_winner(is_bonus_round=False) after the last round
StandardFinal ==
    /\ pc = "std_loop"
    /\ current_round >= rounds_total
    /\ winner_final' = get_final_winner_standard(player, sally).winner_final
    /\ announce' = get_final_winner_standard(player, sally).returned
    /\ console' = "ULTIMATE winner"
    /\ pc' = "bonus_check"
    /\ UNCHANGED <<player, sally, bob, tie_points, current_round, rounds_total,
                   p_move, r_move, winner>>

\* run(), lines 386-387, and run_bonus_game, lines 341-347, up to its prompt
BonusCheck ==
    /\ pc = "bonus_check"
    /\ IF winner_final = player.name
       THEN /\ player' = reset_points(player)
            /\ sally' = reset_points(sally)
            /\ tie_points' = 0
            /\ bob' = Player("Bob")
            /\ console' = "congrats!"
            /\ pc' = "bonus_rounds_prompt"
       ELSE /\ pc' = "farewell"
            /\ UNCHANGED <<player, sally, tie_points, bob, console>>
    /\ UNCHANGED <<winner_final, current_round, rounds_total, p_move, r_move,
                   winner, announce>>

\* run_bonus_game, lines 350-351
BonusRoundsAccepted(rounds_str) ==
    /\ pc = "bonus_rounds_prompt"
    /\ get_num_rounds(rounds_str).returned
    /\ get_num_rounds(rounds_str).value <= MaxBonusRounds
    /\ rounds_total' = get_num_rounds(rounds_str).value
    /\ current_round' = 0
    /\ console' = "enter a number"
    /\ pc' = "bonus_loop"
    /\ UNCHANGED <<player, sally, bob, tie_points, winner_final,
                   p_move, r_move, winner, announce>>

\* play_bonus_round, lines 269-273, up to the first move prompt
BeginBonusRound ==
    /\ pc = "bonus_loop"
    /\ current_round < rounds_total
    /\ current_round' = current_round + 1
    /\ console' = "--- bonus round"
    /\ pc' = "sally_move"
    /\ UNCHANGED <<player, sally, bob, tie_points, winner_final, rounds_total,
                   p_move, r_move, winner, announce>>

\* play_bonus_round, lines 274-280: the battle against Sally
BattleSally(move, robot_move) ==
    /\ pc = "sally_move"
    /\ move_accepted(move, bonus_moves)
    /\ robot_move \in RobotChoices(bonus_moves)
    /\ p_move' = lower(move)
    /\ r_move' = robot_move
    /\ LET res == get_bonus_winner(lower(move), robot_move, player, sally, tie_points)
       IN  /\ player' = res.player
           /\ sally' = res.robot
           /\ tie_points' = res.tie_points
           /\ winner' = res.winner_name
    /\ console' = "next, for your battle against Bob..."
    /\ pc' = "bob_move"
    /\ UNCHANGED <<bob, winner_final, current_round, rounds_total, announce>>

\* the battle against Bob with self.sally passed as the robot (a copy-paste
\* slip of line 284)
BattleBob_scores_sally(move, robot_move) ==
    /\ pc = "bob_move"
    /\ move_accepted(move, bonus_moves)
    /\ robot_move \in RobotChoices(bonus_moves)
    /\ p_move' = lower(move)
    /\ r_move' = robot_move
    /\ LET res == get_bonus_winner(lower(move), robot_move, player, sally, tie_points)
       IN  /\ player' = res.player
           /\ sally' = res.robot
           /\ tie_points' = res.tie_points
           /\ winner' = res.winner_name
    /\ console' = "--- scores"
    /\ pc' = "bonus_loop"
    /\ UNCHANGED <<bob, winner_final, current_round, rounds_total, announce>>

\* play_bonus_round, lines 281-288, then print_scores (line 356): the battle
\* against Bob
BattleBob(move, robot_move) ==
    /\ pc = "bob_move"
    /\ move_accepted(move, bonus_moves)
    /\ robot_move \in RobotChoices(bonus_moves)
    /\ p_move' = lower(move)
    /\ r_move' = robot_move
    /\ LET res == get_bonus_winner(lower(move), robot_move, player, bob, tie_points)
       IN  /\ player' = res.player
           /\ bob' = res.robot
           /\ tie_points' = res.tie_points
           /\ winner' = res.winner_name
    /\ console' = "--- scores"
    /\ pc' = "bonus_loop"
    /\ UNCHANGED <<sally, winner_final, current_round, rounds_total, announce>>

\* run_bonus_game, line 358: get_final_winner(is_bonus_round=True)
BonusFinal ==
    /\ pc = "bonus_loop"
    /\ current_round >= rounds_total
    /\ announce' = get_final_winner_bonus(player, sally, bob)
    /\ console' = "MOST ULTIMATE winner"
    /\ pc' = "farewell"
    /\ UNCHANGED <<player, sally, bob, tie_points, winner_final, current_round,
                   rounds_total, p_move, r_move, winner>>

\* run(), line 389: the single exit
Farewell ==
    /\ pc = "farewell"
    /\ console' = "bye bye. thanks for playing, come again soon!"
    /\ pc' = "done"
    /\ UNCHANGED <<player, sally, bob, tie_points, winner_final, current_round,
                   rounds_total, p_move, r_move, winner, announce>>

Next ==
    \/ \E name \in Names : EnterName(name)
    \/ \E rounds_str \in NumInputs : RoundsRejected(rounds_str)
    \/ \E rounds_str \in NumInputs : StandardRoundsAccepted(rounds_str)
    \/ BeginStandardRound
    \/ MoveRejected
    \/ \E move \in StdAccepted, robot_move \in Elems(normal_moves) :
            StandardBattle(move, robot_move)
    \/ StandardFinal
    \/ BonusCheck
    \/ \E rounds_str \in NumInputs : BonusRoundsAccepted(rounds_str)
    \/ BeginBonusRound
    \/ \E move \in BonusAccepted, robot_move \in Elems(bonus_moves) :
            BattleSally(move, robot_move)
    \/ \E move \in BonusAccepted, robot_move \in Elems(bonus_moves) :
            BattleBob(move, robot_move)
    \/ BonusFinal
    \/ Farewell

Spec == Init /\ [][Next]_vars

(***************************************************************************)
(* Vocabulary of the properties.                                           *)
(***************************************************************************)
StandardSet == {Dragon, Knight, Wizard}
BonusSet == {Dragon, Knight, Wizard, Druid}

\* the cyclic table as the rules text states it
Beats(a, b) ==
    \/ a = Dragon /\ b = Knight
    \/ a = Knight /\ b = Wizard
    \/ a = Wizard /\ b = Dragon

\* a step that resolves (or fails to resolve) a standard round
StandardRoundStep == pc = "std_move" /\ pc' # "std_move"
\* steps that resolve the two battles of a bonus round
SallyBattleStep == pc = "sally_move" /\ pc' = "bob_move"
BobBattleStep == pc = "bob_move" /\ pc' = "bonus_loop"

InBonusPhase == bob # None

(***************************************************************************)
(* C1.  The bonus phase is entered only if the human won the standard      *)
(* phase: whatever name was typed, run_bonus_game starts only from a state *)
(* in which the human has strictly more points than Sally.                 *)
(* Refuted by the code: run() compares winner_final with the human's name, *)
(* and that name may be "Sally" or "no one".                               *)
(***************************************************************************)
C1_BonusOnlyIfHumanWon ==
    [][(pc = "bonus_check" /\ pc' = "bonus_rounds_prompt")
         => player.points > sally.points]_vars

(***************************************************************************)
(* C2.  choose_move never returns an invalid input: the value it returns   *)
(* is a lowercase member of the allowed move set (3 codes in standard      *)
(* mode, 4 in bonus mode).                                                 *)
(* Refuted by the code: the test  move in valid_inputs  is a substring     *)
(* test, passed by "" and by "dk".                                         *)
(***************************************************************************)
C2_ReturnedMoveIsAllowed ==
    p_move # Unassigned =>
        IF InBonusPhase THEN p_move \in BonusSet ELSE p_move \in StandardSet

(***************************************************************************)
(* C3.  No state is reachable in which the core logic raises an error.     *)
(* Refuted by the code: get_round_winner looks up normal_rules[p_move]     *)
(* with a p_move that is no key of the table.                              *)
(***************************************************************************)
C3_NoErrorRaised == pc # "crashed"

(***************************************************************************)
(* C4.  Over {dragon, knight, wizard} the standard resolver is total and   *)
(* symmetric-complementary: a round with moves (a, b) never raises; it is  *)
(* a tie iff a = b, won by the human iff a beats b in the cyclic table,    *)
(* and won by the opponent otherwise; and when (a, b) is won by the human, *)
(* (b, a) is won by the opponent.                                          *)
(***************************************************************************)
\* who the step gave the round to, read off the counters and the name returned
StandardOutcome ==
    IF /\ tie_points' = tie_points + 1
       /\ player' = player /\ sally' = sally
       /\ winner' = "it's a tie :( no one"
    THEN "tie"
    ELSE IF /\ player' = add_points(player, 1)
            /\ sally' = sally /\ tie_points' = tie_points
            /\ winner' = player.name
    THEN "human"
    ELSE IF /\ sally' = add_points(sally, 1)
            /\ player' = player /\ tie_points' = tie_points
            /\ winner' = sally.name
    THEN "opponent"
    ELSE "none"

C4_StandardResolver ==
    [][(StandardRoundStep /\ p_move' \in StandardSet /\ r_move' \in StandardSet) =>
          /\ pc' = "std_loop"
          /\ StandardOutcome \in {"tie", "human", "opponent"}
          /\ (StandardOutcome = "tie") <=> (p_move' = r_move')
          /\ (StandardOutcome = "human") <=> Beats(p_move', r_move')
          /\ (StandardOutcome = "opponent") <=> Beats(r_move', p_move')
          /\ Beats(p_move', r_move') =>
                LET swapped == get_round_winner(r_move', p_move', player, sally, tie_points)
                IN  /\ ~swapped.raised
                    /\ swapped.robot = add_points(sally, 1)
                    /\ swapped.player = player
                    /\ swapped.tie_points = tie_points]_vars

\* the human's dragon has beaten Sally's knight in round 1
C4_Witness ==
    /\ pc = "std_loop" /\ current_round = 1
    /\ p_move = Dragon /\ r_move = Knight
    /\ player.points = 1 /\ sally.points = 0 /\ tie_points = 0
    /\ winner = player.name

(***************************************************************************)
(* C5.  For every pair of moves (h, o) from {dragon, knight, wizard,      *)
(* druid} a bonus battle changes the totals by exactly: h druid and o not  *)
(* -> human +2, opponent -2; o druid and h not -> human -2, opponent +2;   *)
(* both druid -> -2 and -2; h = o, not druid -> no points, tie counter +1; *)
(* otherwise +1 to the side that wins under the cyclic table and 0 to the  *)
(* other.  With exactly one druid the deltas do not depend on the other    *)
(* side's move.                                                            *)
(***************************************************************************)
\* <<human delta, opponent delta, tie-counter delta>> as the rules state them
ExpectedBonusDelta(h, o) ==
    IF h = Druid /\ o # Druid THEN <<2, -2, 0>>
    ELSE IF o = Druid /\ h # Druid THEN <<-2, 2, 0>>
    ELSE IF h = Druid /\ o = Druid THEN <<-2, -2, 0>>
    ELSE IF h = o THEN <<0, 0, 1>>
    ELSE IF Beats(h, o) THEN <<1, 0, 0>>
    ELSE <<0, 1, 0>>

C5_BonusDeltas ==
    [][/\ (SallyBattleStep /\ p_move' \in BonusSet) =>
            /\ <<player'.points - player.points, sally'.points - sally.points,
                  tie_points' - tie_points>> = ExpectedBonusDelta(p_move', r_move')
            /\ r_move' \in BonusSet
       /\ (BobBattleStep /\ p_move' \in BonusSet) =>
            /\ <<player'.points - player.points, bob'.points - bob.points,
                  tie_points' - tie_points>> = ExpectedBonusDelta(p_move', r_move')
            /\ r_move' \in BonusSet]_vars

\* druid against Sally's druid in the first battle of the bonus phase
C5_Witness ==
    /\ pc = "bob_move" /\ current_round = 1
    /\ p_move = Druid /\ r_move = Druid
    /\ player.points = -2 /\ sally.points = -2 /\ tie_points = 0

(***************************************************************************)
(* C6.  The bonus-phase final winner is, for every triple of totals        *)
(* (negative ones included): the participant strictly above both others,   *)
(* if there is one; the joint Sally-and-Bob pair if Sally and Bob are      *)
(* equal and both strictly above the human; "no one" otherwise, that is    *)
(* when all three are equal or the human shares the maximum with one       *)
(* opponent.                                                               *)
(***************************************************************************)
BonusWinnerDeclared == pc \in {"farewell", "done"} /\ InBonusPhase

C6_BonusFinalWinner ==
    BonusWinnerDeclared =>
        LET h == player.points
            s == sally.points
            b == bob.points
        IN  /\ (h > s /\ h > b) =>
                   announce = player.name \o " is the MOST ULTIMATE winner!"
            /\ (s > h /\ s > b) =>
                   announce = sally.name \o " is the MOST ULTIMATE winner!"
            /\ (b > h /\ b > s) =>
                   announce = bob.name \o " is the MOST ULTIMATE winner!"
            /\ (s = b /\ s > h) =>
                   announce = "Bob and Sally are the MOST ULTIMATE winners!"
            /\ ((h = s /\ s = b) \/ (h = s /\ h > b) \/ (h = b /\ h > s)) =>
                   announce = "it's a tie :( no one is the MOST ULTIMATE winner!"
            /\ \/ h > s /\ h > b
               \/ s > h /\ s > b
               \/ b > h /\ b > s
               \/ s = b /\ s > h
               \/ h = s /\ s = b
               \/ h = s /\ h > b
               \/ h = b /\ h > s

\* Sally and Bob end level on 2, above the human on a negative total
C6_Witness ==
    /\ pc = "done" /\ InBonusPhase
    /\ sally.points = 2 /\ bob.points = 2 /\ player.points = -4
    /\ announce = "Bob and Sally are the MOST ULTIMATE winners!"

(***************************************************************************)
(* C7.  The standard-phase final winner recorded in winner_final is the    *)
(* participant with strictly more points and is "no one" exactly when the  *)
(* two totals are equal; the recorded value identifies which of the three  *)
(* outcomes occurred.                                                      *)
(* Refuted by the code: the record is a name, and the human may be named   *)
(* "no one" or "Sally".                                                    *)
(***************************************************************************)
C7_StandardFinalWinner ==
    pc = "bonus_check" =>
        /\ (winner_final = player.name) <=> (player.points > sally.points)
        /\ (winner_final = sally.name) <=> (sally.points > player.points)
        /\ (winner_final = "no one") <=> (player.points = sally.points)

(***************************************************************************)
(* C8.  get_num_rounds rejects every line that is not a positive integer   *)
(* and changes nothing on a rejection, accepts the first positive integer  *)
(* n, and the phase that follows plays exactly n rounds: the round index   *)
(* goes from 0 to n in steps of 1 and the loop ends at n, with every round *)
(* begun also resolved.                                                    *)
(* Refuted by the code: a standard round whose move lookup raises (C3)     *)
(* ends the loop before n rounds are played.                               *)
(***************************************************************************)
RoundsPrompts == {"std_rounds_prompt", "bonus_rounds_prompt"}
StandardLoop == {"std_loop", "std_move"}
BonusLoop == {"bonus_loop", "sally_move", "bob_move"}

\* the values a line at the round-count prompt may stand for
PositiveCounts == {int(t).val : t \in {u \in NumInputs : int(u).ok /\ int(u).val > 0}}

C8_RoundCountAndLoopLength ==
    [][/\ (pc \in RoundsPrompts /\ pc' = pc) =>
            UNCHANGED <<player, sally, bob, tie_points, current_round, rounds_total>>
       /\ (pc \in RoundsPrompts /\ pc' # pc) =>
            /\ rounds_total' \in PositiveCounts
            /\ current_round' = 0
       /\ (pc \notin RoundsPrompts /\ current_round' # current_round) =>
            /\ current_round' = current_round + 1
            /\ current_round' <= rounds_total
       /\ (pc \in StandardLoop /\ pc' \notin StandardLoop) =>
            /\ pc = "std_loop"
            /\ current_round = rounds_total
       /\ (pc \in BonusLoop /\ pc' \notin BonusLoop) =>
            /\ pc = "bonus_loop"
            /\ current_round = rounds_total]_vars

(***************************************************************************)
(* C9.  Bonus-phase reset: in the state in which the first bonus round     *)
(* begins the human's, Sally's and Bob's points and the tie counter are 0  *)
(* and the round index is 0, whatever the standard phase left in them; the *)
(* bonus phase's round count is the value entered at the bonus prompt.     *)
(***************************************************************************)
ScoresAreZero ==
    /\ player.points = 0 /\ sally.points = 0 /\ bob.points = 0
    /\ tie_points = 0

C9_BonusReset ==
    /\ [](/\ pc = "bonus_rounds_prompt" => ScoresAreZero
          /\ (pc = "bonus_loop" /\ current_round = 0) => ScoresAreZero
          /\ (pc = "sally_move" /\ current_round = 1) => ScoresAreZero)
    /\ [][/\ (pc = "bonus_check" /\ pc' = "bonus_rounds_prompt") =>
                /\ player' = [name |-> player.name, points |-> 0]
                /\ sally' = [name |-> sally.name, points |-> 0]
                /\ bob' = [name |-> "Bob", points |-> 0]
                /\ tie_points' = 0
          /\ (pc = "bonus_rounds_prompt" /\ pc' = "bonus_loop") =>
                /\ current_round' = 0
                /\ rounds_total' \in PositiveCounts
                /\ UNCHANGED <<player, sally, bob, tie_points>>
          /\ (pc = "bonus_loop" /\ pc' = "sally_move" /\ current_round' = 1) =>
                /\ current_round = 0
                /\ ScoresAreZero
                /\ UNCHANGED <<player, sally, bob, tie_points, rounds_total>>]_vars

\* the first bonus round begins with every counter at 0 although the human
\* took the last standard round (dragon over knight)
C9_Witness ==
    /\ pc = "sally_move" /\ current_round = 1 /\ rounds_total = 1
    /\ InBonusPhase /\ ScoresAreZero
    /\ p_move = Dragon /\ r_move = Knight /\ winner = player.name

(***************************************************************************)
(* C10.  Every standard round changes exactly one of the three counters    *)
(* {human points, Sally points, tie counter}, by exactly +1, and leaves    *)
(* the other two unchanged.                                                *)
(* Refuted by the code: a round whose move lookup raises (C3) changes      *)
(* none of them.                                                           *)
(***************************************************************************)
C10_StandardRoundFrame ==
    [][StandardRoundStep =>
          \/ /\ player' = add_points(player, 1)
             /\ sally' = sally /\ tie_points' = tie_points
          \/ /\ sally' = add_points(sally, 1)
             /\ player' = player /\ tie_points' = tie_points
          \/ /\ tie_points' = tie_points + 1
             /\ player' = player /\ sally' = sally]_vars

(***************************************************************************)
(* C11.  Each bonus round is exactly two battles resolved independently,   *)
(* human vs Sally and then human vs Bob, each on its own pair of moves:    *)
(* the battle against Sally leaves Bob's points unchanged, the battle      *)
(* against Bob leaves Sally's, and the human's change over the round is    *)
(* the sum of the human's deltas of the two battles (druid vs Sally's      *)
(* dragon, knight vs Bob's wizard: human +3, Sally -2, Bob 0).             *)
(* In a step of the battle against Bob the unprimed p_move, r_move are the *)
(* moves of the battle against Sally, the primed ones those against Bob.   *)
(***************************************************************************)
C11_TwoIndependentBattles ==
    [][/\ (pc = "bonus_loop" /\ pc' # pc) => pc' \in {"sally_move", "farewell"}
       /\ (pc = "sally_move" /\ pc' # pc) => pc' = "bob_move"
       /\ (pc = "bob_move" /\ pc' # pc) => pc' = "bonus_loop"
       /\ SallyBattleStep =>
            /\ bob' = bob
            /\ current_round' = current_round
            /\ p_move' \in BonusSet =>
                  <<player'.points - player.points, sally'.points - sally.points,
                    tie_points' - tie_points>> = ExpectedBonusDelta(p_move', r_move')
       /\ BobBattleStep =>
            /\ sally' = sally
            /\ current_round' = current_round
            /\ p_move' \in BonusSet =>
                  <<player'.points - player.points, bob'.points - bob.points,
                    tie_points' - tie_points>> = ExpectedBonusDelta(p_move', r_move')
       /\ (BobBattleStep /\ current_round = 1
              /\ p_move \in BonusSet /\ p_move' \in BonusSet) =>
            /\ player'.points = ExpectedBonusDelta(p_move, r_move)[1]
                                  + ExpectedBonusDelta(p_move', r_move')[1]
            /\ sally'.points = ExpectedBonusDelta(p_move, r_move)[2]
            /\ bob'.points = ExpectedBonusDelta(p_move', r_move')[2]]_vars

\* round 1 ended human 3, Sally -2, Bob 0 on knight against Bob's wizard
C11_Witness ==
    /\ pc = "bonus_loop" /\ current_round = 1 /\ InBonusPhase
    /\ p_move = Knight /\ r_move = Wizard
    /\ player.points = 3 /\ sally.points = -2 /\ bob.points = 0

(***************************************************************************)
(* C12.  The tie counter is phase-scoped and counts the battles of the     *)
(* current phase in which both sides played the same non-druid move: it is *)
(* 0 when a phase starts, a battle with equal non-druid moves adds 1, a    *)
(* druid-vs-druid battle and every win/loss battle leave it unchanged, no  *)
(* other step inside a phase changes it, and it never decreases within a   *)
(* phase.                                                                  *)
(***************************************************************************)
BattleStep == StandardRoundStep \/ SallyBattleStep \/ BobBattleStep
BonusPhaseStarts == pc = "bonus_check" /\ pc' = "bonus_rounds_prompt"

C12_TieCounter ==
    /\ [](/\ (pc \in {"name_prompt", "std_rounds_prompt"}) => tie_points = 0
          /\ (pc \in {"std_loop", "bonus_loop"} /\ current_round = 0) => tie_points = 0)
    /\ [][/\ BattleStep =>
                tie_points' = tie_points
                              + (IF p_move' = r_move' /\ p_move' # Druid THEN 1 ELSE 0)
          /\ BonusPhaseStarts => tie_points' = 0
          /\ (~BattleStep /\ ~BonusPhaseStarts) => tie_points' = tie_points
          /\ ~BonusPhaseStarts => tie_points' >= tie_points]_vars

\* both battles of a bonus round were knight against knight
C12_Witness ==
    /\ pc = "bonus_loop" /\ current_round = 1 /\ InBonusPhase
    /\ p_move = Knight /\ r_move = Knight
    /\ tie_points = 2 /\ player.points = 0 /\ sally.points = 0 /\ bob.points = 0

(***************************************************************************)
(* C13.  The phases come in the fixed order setup -> standard round loop   *)
(* -> standard winner determination -> optional bonus round loop -> bonus  *)
(* winner determination -> exit: no standard round after the standard      *)
(* winner is determined, no bonus round before it, the bonus phase at most *)
(* once, Bob created only when the bonus phase is entered, and the         *)
(* farewell step the last step on every path.                              *)
(* Refuted by the code: the path on which a move lookup raises (C3) ends   *)
(* inside the standard loop, without the farewell step.                    *)
(***************************************************************************)
\* position of a control point in the order of the phases
PhaseRank(at) ==
    CASE at = "name_prompt" -> 0
      [] at = "std_rounds_prompt" -> 1
      [] at \in StandardLoop -> 2
      [] at = "bonus_check" -> 3
      [] at = "bonus_rounds_prompt" -> 4
      [] at \in BonusLoop -> 5
      [] at = "farewell" -> 6
      [] OTHER -> 7

PhaseOrderStep ==
    /\ PhaseRank(pc') >= PhaseRank(pc)
    /\ (pc' \in StandardLoop /\ pc \notin StandardLoop) => pc = "std_rounds_prompt"
    /\ (pc' \in BonusLoop /\ pc \notin BonusLoop) =>
          /\ pc = "bonus_rounds_prompt"
          /\ winner_final # ""
    /\ BonusPhaseStarts => bob = None
    /\ bob' # bob => (BonusPhaseStarts \/ pc \in BonusLoop)
    /\ (bob = None /\ bob' # None) => BonusPhaseStarts
    /\ pc' = "done" => pc = "farewell"

C13_PhaseOrder ==
    /\ [][PhaseOrderStep]_vars
    /\ []((~ENABLED Next) => pc = "done")

(***************************************************************************)
(* C14.  Whenever the human finishes the standard phase with strictly more *)
(* points than Sally (1 round, dragon against knight, 1 to 0), the final   *)
(* winner is the human and the bonus phase is triggered before the program *)
(* exits: the step after the winner determination starts the bonus phase,  *)
(* and no run reaches the farewell with the human ahead of Sally and the   *)
(* bonus phase not entered.                                                *)
(***************************************************************************)
HumanAhead == player.points > sally.points

C14_HumanWinTriggersBonus ==
    /\ []((pc = "bonus_check" /\ HumanAhead) =>
             /\ winner_final = player.name
             /\ announce = player.name \o " is the ULTIMATE winner!")
    /\ []((pc \in {"farewell", "done"} /\ ~InBonusPhase) => ~HumanAhead)
    /\ [][(pc = "bonus_check" /\ HumanAhead /\ pc' # pc) =>
             /\ pc' = "bonus_rounds_prompt"
             /\ bob' = [name |-> "Bob", points |-> 0]]_vars

\* dragon over knight in a 1-round game has opened the bonus phase
C14_Witness ==
    /\ pc = "bonus_rounds_prompt" /\ InBonusPhase
    /\ rounds_total = 1 /\ current_round = 1
    /\ p_move = Dragon /\ r_move = Knight
    /\ winner_final = player.name
    /\ announce = player.name \o " is the ULTIMATE winner!"

(***************************************************************************)
(* C15.  If every round of a standard phase of N rounds is a tie, then at  *)
(* the end of the phase the tie counter is N, both point totals are 0, the *)
(* final winner is "no one", and the bonus phase is not triggered.         *)
(* Refuted by the code: a human named "no one" passes the name comparison  *)
(* of line 386 after an all-tie phase (C1).                                *)
(***************************************************************************)
\* at the winner determination: N rounds were played and N of them were ties
AllRoundsTied ==
    /\ pc = "bonus_check"
    /\ current_round = rounds_total
    /\ tie_points = rounds_total

C15_AllTiesNoBonus ==
    /\ [](AllRoundsTied =>
             /\ player.points = 0 /\ sally.points = 0
             /\ winner_final = "no one"
             /\ announce = "it's a tie :( no one is the ULTIMATE winner!")
    /\ [][(AllRoundsTied /\ pc' # pc) =>
             /\ pc' = "farewell"
             /\ bob' = None]_vars

(***************************************************************************)
(* C16.  Bonus resolver case exhaustiveness.                               *)
(* As claimed: for every pair of moves from the 4-move set exactly one of  *)
(* the six cases of get_bonus_winner applies, so that the first-match      *)
(* order of its tests never changes which case is taken                    *)
(* (C16_ExactlyOneTestApplies).  Refuted by the code: druid against druid  *)
(* passes the both-druid test of line 244 and the equal-moves test of line *)
(* 250, and only the order of the two makes it case 3.                     *)
(* As amended (C16_ExactlyOneCaseTaken): for every pair of moves from the  *)
(* 4-move set exactly one of the six cases as the rules describe them      *)
(* holds (case 4 being equal non-druid moves) and the first-match          *)
(* evaluation of get_bonus_winner takes that case; its tests are mutually  *)
(* exclusive except for druid against druid, which also passes the         *)
(* equal-moves test and is decided by the both-druid test standing first.  *)
(***************************************************************************)
\* the tests of the chain that a pair of moves passes; the else branch (6)
\* applies when no test does
TestsApplying(pm, rm) ==
    LET passed == {i \in 1..5 : bonus_case_tests(pm, rm)[i]}
    IN  IF passed = {} THEN {6} ELSE passed

\* the branch a first-match evaluation of the chain takes
FirstMatch(pm, rm) ==
    CHOOSE i \in TestsApplying(pm, rm) : \A j \in TestsApplying(pm, rm) : i <= j

\* the six cases as the rules describe them
RuleCase(i, h, o) ==
    CASE i = 1 -> h = Druid /\ o # Druid
      [] i = 2 -> o = Druid /\ h # Druid
      [] i = 3 -> h = Druid /\ o = Druid
      [] i = 4 -> h = o /\ h # Druid
      [] i = 5 -> Beats(h, o)
      [] OTHER -> Beats(o, h)

RuleCasesHolding(h, o) == {i \in 1..6 : RuleCase(i, h, o)}

\* <<human delta, opponent delta, tie-counter delta>> of each branch
CaseDelta ==
    << <<2, -2, 0>>, <<-2, 2, 0>>, <<-2, -2, 0>>, <<0, 0, 1>>, <<1, 0, 0>>, <<0, 1, 0>> >>

\* the deltas a bonus battle step applied to the human, the robot it was
\* fought against, and the tie counter
BattleDelta ==
    IF pc = "sally_move"
    THEN <<player'.points - player.points, sally'.points - sally.points,
           tie_points' - tie_points>>
    ELSE <<player'.points - player.points, bob'.points - bob.points,
           tie_points' - tie_points>>

BonusBattleOnSet ==
    (SallyBattleStep \/ BobBattleStep) /\ p_move' \in BonusSet /\ r_move' \in BonusSet

RoundBeingPlayed == pc \in {"std_move", "sally_move", "bob_move", "crashed"}
ScoreboardPrinted == pc \in {"std_loop", "bonus_loop"} /\ console = "--- scores"
WinnerDetermined == pc \in {"bonus_check", "farewell", "done"}
RoundBegins == pc \in {"std_loop", "bonus_loop"} /\ pc' \in {"std_move", "sally_move"}

C17_RoundIndexBounds ==
    /\ []((RoundBeingPlayed \/ ScoreboardPrinted) =>
             /\ rounds_total >= 1
             /\ 1 <= current_round /\ current_round <= rounds_total)
    /\ [](WinnerDetermined =>
             /\ rounds_total >= 1
             /\ current_round = rounds_total)
    /\ [][/\ pc \notin RoundsPrompts => rounds_total' = rounds_total
          /\ RoundBegins => current_round' = current_round + 1
          /\ (pc \notin RoundsPrompts /\ ~RoundBegins) =>
                current_round' = current_round]_vars

\* the scoreboard of round 2 of 2
C17_Witness ==
    /\ pc = "std_loop" /\ console = "--- scores"
    /\ current_round = 2 /\ rounds_total = 2
    /\ player.points = 0 /\ sally.points = 2

(***************************************************************************)
(* C18.  Standard-phase conservation: after every completed standard       *)
(* round, human points + Sally points + tie counter equals the current     *)
(* round index, so at the end of the phase the three counters sum to the   *)
(* total number of rounds.                                                 *)
(***************************************************************************)
StandardSum == player.points + sally.points + tie_points
StandardPhaseEnded ==
    \/ pc = "bonus_check"
    \/ pc \in {"farewell", "done"} /\ ~InBonusPhase

C18_StandardConservation ==
    /\ pc = "std_loop" => StandardSum = current_round
    /\ StandardPhaseEnded => StandardSum = rounds_total

\* two rounds completed: one won by the human, one tied
C18_Witness ==
    /\ pc = "bonus_check" /\ rounds_total = 2
    /\ player.points = 1 /\ sally.points = 0 /\ tie_points = 1

(***************************************************************************)
(* C19.  Point totals can go negative only in the bonus phase: in every    *)
(* state of the standard phase the human's points, Sally's points and the  *)
(* tie counter are all >= 0; in the bonus phase after k completed rounds   *)
(* Sally's and Bob's totals each lie in [-2k, 2k], the human's total lies  *)
(* in [-4k, 4k] and the tie counter lies in [0, 2k].                       *)
(***************************************************************************)
InStandardPhase == player # None /\ ~InBonusPhase

\* the bonus rounds completed so far; in "bob_move" a round is half played
BonusRoundsCompleted ==
    IF pc = "sally_move" THEN current_round - 1 ELSE current_round
BetweenBonusRounds ==
    InBonusPhase /\ pc \in {"bonus_loop", "sally_move", "farewell", "done"}

Within(x, lo, hi) == lo <= x /\ x <= hi

C19_PointRanges ==
    /\ InStandardPhase =>
          player.points >= 0 /\ sally.points >= 0 /\ tie_points >= 0
    /\ BetweenBonusRounds =>
          LET k == BonusRoundsCompleted
          IN  /\ Within(sally.points, -2 * k, 2 * k)
              /\ Within(bob.points, -2 * k, 2 * k)
              /\ Within(player.points, -4 * k, 4 * k)
              /\ Within(tie_points, 0, 2 * k)

\* one bonus round in which the human lost 2 points to each opponent
C19_Witness ==
    /\ pc = "bonus_loop" /\ InBonusPhase /\ current_round = 1
    /\ player.points = -4 /\ sally.points = 2 /\ bob.points = 2

====
